---- MODULE Spec2Model ----
(***************************************************************************)
(* The job queue of the repository: producers (AudioQueueManager,          *)
(* VideoQueueManager) insert rows into a job table of the store; worker    *)
(* processes (AudioWorker, LocalVideoWorker) poll the table, claim a row   *)
(* with a conditional update, run the handler, report the outcome and      *)
(* notify the job's recipient.  The audio and the video deployments use    *)
(* separate tables and separate worker programs; a behaviour of the model  *)
(* is one of the two deployments (variable kind).  Every store call is one *)
(* atomic step.                                                            *)
(***************************************************************************)
EXTENDS Integers, FiniteSets, Sequences, TLC

\* ---------------------------------------------------------------- bounds
NumJobs == 2
NumWorkers == 2
MaxTime == 1
MaxPriority == 1
MaxStoreErrors == 1
MaxSinkErrors == 1
MaxCount == 3

\* ------------------------------------------------------ program constants
max_retries == 3
heartbeat_interval == 5

JobIds == 1..NumJobs
Workers == 1..NumWorkers
Priorities == 0..MaxPriority
Times == 0..MaxTime
Kinds == {"audio", "video"}

\* worker_id column / candidate when empty
NoWorker == 0
NoJob == 0
NoTime == -1

\* poll_count where the model does not follow it
NotCounted == -1

VARIABLES
    kind,       \* which deployment this behaviour is: audio_jobs or video_jobs
    deployed,   \* the worker processes that were started
    closed,     \* the producers have stopped: no job is inserted any more
    worker_id,  \* each worker process's self.worker_id (WORKER_ID or the host's default)
    queue_files, \* the video queue folder: the uploaded files, as <<job_id, name>>
    poll_count, \* run()'s local poll_count, modulo heartbeat_interval (NotCounted: not followed)
    cycle,      \* observer: the index of the worker's current poll cycle and whether a heartbeat was written at its start
    jobs,       \* the job table: job_id -> row ("absent" = not inserted yet)
    registry,   \* the workers table: worker_id -> row
    now,        \* the latest time a clock read has returned
    pc,         \* each worker process's position in run()
    cand,       \* get_pending_job's local job_id (listed, then claimed)
    rc,         \* mark_job_failed's local retry_count
    cnt,        \* mark_job_*'s local current_count
    enqSince,   \* observer: a job was inserted since the worker's listing
    tried,      \* observer: workers whose claim update ran on the job in its current claim round
    won,        \* observer: those of them whose claim update matched
    runs,       \* observer: number of handler invocations per job
    errors,     \* number of store calls that have raised
    sent,       \* the notification sink: per job, the calls of send_telegram_notification
    sinkFailed, \* the jobs of the notifications that raised inside the sink
    cycleErr,   \* observer: the store call that raised in the worker's current poll cycle
    scratch,    \* each worker's working directory: the handler's files, as <<job_id, name>>
    ret,        \* observer: the last call of a producer (operation, job, priority given, success returned)
    overtook    \* observer: the worker's claim matched while a job of higher priority was pending

vars == <<kind, deployed, closed, worker_id, queue_files, poll_count, cycle, jobs, registry, now, pc, cand, rc, cnt, enqSince, tried, won, runs, errors, sent, sinkFailed, cycleErr, scratch, ret, overtook>>

\* ------------------------------------------------------------------ rows
AbsentJob ==
    [status |-> "absent", payload |-> "", priority |-> 0, created_at |-> NoTime,
     worker_id |-> NoWorker, processing_started_at |-> NoTime,
     retry_count |-> 0, error_message |-> "", result |-> "",
     completed_at |-> NoTime]

\* faulty variant of NewJob: the insert leaves a retry_count of 1 in the new row
NewJob_StaleRetryCount(priority, t) ==
    [AbsentJob EXCEPT !.status = "pending", !.payload = "script", !.priority = priority,
                      !.created_at = t, !.retry_count = 1]

NewJob(priority, t) ==
    [AbsentJob EXCEPT !.status = "pending", !.payload = "script", !.priority = priority,
                      !.created_at = t, !.retry_count = 0]

AbsentWorker ==
    [present |-> FALSE, status |-> "offline", jobs_completed |-> 0, jobs_failed |-> 0]

\* the sink before any notification
NothingSent == [success |-> 0, failure |-> 0]

\* observer ret: not recorded / no call yet
RetOff == [op |-> "off", job |-> NoJob, priority |-> 0, ok |-> FALSE]
RetNone == [op |-> "none", job |-> NoJob, priority |-> 0, ok |-> FALSE]

\* a producer call returns r (kept only where the observer is switched on)
Return(r) == IF ret.op = "off" THEN ret ELSE r

\* What a read of the clock (datetime.utcnow(), datetime.now(), the store's
\* default for created_at) can return: a time no earlier than the last read.
ClockRead == {t \in Times : now <= t /\ t <= now + 1}

Pending == {j \in JobIds : jobs[j].status = "pending"}

\* ------------------------------------------------------------- producers
\* The priorities a producer can give: create_audio_job takes a priority
\* argument, create_video_job always writes 'priority': 0.
EnqueuePriorities(k) == IF k = "audio" THEN Priorities ELSE {0}

NextJobId == Cardinality({j \in JobIds : jobs[j].status # "absent"}) + 1

\* The files create_video_job has uploaded to the queue folder when it has got
\* past step: {job_id}_audio.wav, then {job_id}_image.jpg (create_audio_job
\* uploads nothing).
Uploaded(k, j, step) ==
    IF k = "audio" THEN {}
    ELSE CASE step = "audio" -> {<<j, "audio.wav">>}
           [] step \in {"image", "insert"} -> {<<j, "audio.wav">>, <<j, "image.jpg">>}
           [] OTHER -> {}

\* The files a failed create_video_job leaves in the queue folder.  step is
\* the call that failed: the upload of the audio (nothing was uploaded), the
\* upload of the image or the insert.  The cleanup is self.gdrive.delete_file,
\* which GDriveImageManager does not define: the call raises AttributeError,
\* the except branch returns failure and nothing is deleted; when the insert
\* itself raises, the except branch is entered at once.
LeftInQueue(k, j, step) ==
    CASE step = "image" -> Uploaded(k, j, "audio")
      [] step = "insert" -> Uploaded(k, j, "image")
      [] OTHER -> {}

\* create_audio_job / create_video_job: the insert succeeded.
Enqueue(p) ==
    /\ ~closed
    /\ NextJobId \in JobIds
    /\ p \in EnqueuePriorities(kind)
    /\ \E t \in ClockRead :
          /\ now' = t
          /\ jobs' = [jobs EXCEPT ![NextJobId] = NewJob(p, t)]
    /\ queue_files' = queue_files \cup Uploaded(kind, NextJobId, "insert")
    /\ enqSince' = [w \in Workers |-> pc[w] = "claim"]
    /\ ret' = Return([op |-> "create", job |-> NextJobId, priority |-> p, ok |-> TRUE])
    /\ UNCHANGED <<kind, deployed, closed, worker_id, poll_count, cycle, registry, pc, cand, rc, cnt, tried, won, runs, errors, sent, sinkFailed, cycleErr, scratch, overtook>>

\* A further insert once NumJobs rows exist.  The model keeps a window of
\* NumJobs rows: it follows the first NumJobs - 1 jobs to their end, and the
\* last row stands for the stream of later jobs: when its job is finished and
\* no worker has it in hand, the row leaves the window and the new job (a
\* fresh job_id) takes its place.
Reinsert(p, j) ==
    /\ ~closed
    /\ NextJobId \notin JobIds
    /\ j = NumJobs
    /\ p \in EnqueuePriorities(kind)
    /\ jobs[j].status \in {"completed", "failed"}
    /\ \A w \in Workers : cand[w] # j
    /\ \E t \in ClockRead :
          /\ now' = t
          /\ jobs' = [jobs EXCEPT ![j] = NewJob(p, t)]
    /\ enqSince' = [w \in Workers |-> pc[w] = "claim"]
    /\ tried' = [tried EXCEPT ![j] = {}]
    /\ won' = [won EXCEPT ![j] = {}]
    /\ runs' = [runs EXCEPT ![j] = 0]
    /\ sent' = [sent EXCEPT ![j] = NothingSent]
    /\ sinkFailed' = {x \in sinkFailed : x[1] # j}
    /\ scratch' = [w \in Workers |-> {f \in scratch[w] : f[1] # j}]
    /\ ret' = Return([op |-> "create", job |-> j, priority |-> p, ok |-> TRUE])
    /\ UNCHANGED <<kind, deployed, closed, worker_id, queue_files, poll_count, cycle, registry, pc, cand, rc, cnt, errors, cycleErr, overtook>>

\* The producers stop: create_audio_job / create_video_job is not called any
\* more.
StopProducing ==
    /\ ~closed
    /\ closed' = TRUE
    /\ UNCHANGED <<kind, deployed, worker_id, queue_files, poll_count, cycle, jobs, registry, now, pc, cand, rc, cnt, enqSince, tried, won, runs, errors, sent, sinkFailed, cycleErr, scratch, ret, overtook>>

\* faulty variant of CancelMatches: cancel_job filters on job_id alone
CancelMatches_NoStatusFilter(j) == jobs[j].status # "absent"

\* cancel_job's filter .eq('job_id', job_id).eq('status', 'pending')
CancelMatches(j) == jobs[j].status = "pending"

\* AudioQueueManager.cancel_job (the video producer has no cancel).
CancelJob(j) ==
    /\ kind = "audio"
    /\ jobs' = IF CancelMatches(j)
               THEN [jobs EXCEPT ![j].status = "failed",
                                 ![j].error_message = "Cancelled by user"]
               ELSE jobs
    /\ ret' = Return([op |-> "cancel", job |-> j, priority |-> 0, ok |-> CancelMatches(j)])
    /\ UNCHANGED <<kind, deployed, closed, worker_id, queue_files, poll_count, cycle, registry, now, pc, cand, rc, cnt, enqSince, tried, won, runs, errors, sent, sinkFailed, cycleErr, scratch, overtook>>

\* create_audio_job / create_video_job: the insert raised or returned no
\* row; the producer returns success = False and no job_id.
EnqueueRejected(p) ==
    /\ p \in EnqueuePriorities(kind)
    /\ errors < MaxStoreErrors
    /\ errors' = errors + 1
    /\ queue_files' = queue_files \cup
                         (IF NextJobId \in JobIds THEN LeftInQueue(kind, NextJobId, "insert") ELSE {})
    /\ ret' = Return([op |-> "create", job |-> NoJob, priority |-> p, ok |-> FALSE])
    /\ UNCHANGED <<kind, deployed, closed, worker_id, poll_count, cycle, jobs, registry, now, pc, cand, rc, cnt, enqSince, tried, won, runs, sent, sinkFailed, cycleErr, scratch, overtook>>

\* cancel_job: the update raised; the except branch returns False.
CancelRejected(j) ==
    /\ kind = "audio"
    /\ errors < MaxStoreErrors
    /\ errors' = errors + 1
    /\ ret' = Return([op |-> "cancel", job |-> j, priority |-> 0, ok |-> FALSE])
    /\ UNCHANGED <<kind, deployed, closed, worker_id, queue_files, poll_count, cycle, jobs, registry, now, pc, cand, rc, cnt, enqSince, tried, won, runs, sent, sinkFailed, cycleErr, scratch, overtook>>

\* create_video_job: _upload_to_queue returned None for the audio or for the
\* image; the producer returns success = False and inserts no row.
UploadFails(step) ==
    /\ kind = "video"
    /\ step \in {"audio", "image"}
    /\ NextJobId \in JobIds
    /\ queue_files' = queue_files \cup LeftInQueue(kind, NextJobId, step)
    /\ ret' = Return([op |-> "create", job |-> NoJob, priority |-> 0, ok |-> FALSE])
    /\ UNCHANGED <<kind, deployed, closed, worker_id, poll_count, cycle, jobs, registry, now, pc, cand, rc, cnt, enqSince, tried, won, runs, errors, sent, sinkFailed, cycleErr, scratch, overtook>>

\* --------------------------------------------------------------- workers
\* whether the model follows worker w's poll_count
Counting(w) == poll_count[w] # NotCounted

\* poll_count += 1 (only poll_count % heartbeat_interval is ever read)
Incremented(c) == IF c = NotCounted THEN c ELSE (c + 1) % heartbeat_interval

\* faulty variant of HeartbeatDue: the test is made on poll_count + 1
HeartbeatDue_OneLate(c) == (c + 1) % heartbeat_interval = 0

\* if poll_count % self.heartbeat_interval == 0
HeartbeatDue(c) == c % heartbeat_interval = 0

\* w goes on at position p.  "poll" stands for the next iteration of run()'s
\* while loop: it begins at "head", the heartbeat test, where poll_count is
\* followed, and at the listing where it is not.  The audio worker increments
\* poll_count at the end of an iteration, the video worker right after the
\* heartbeat test; register_worker enters the loop with poll_count = 0.
Enter(w, p) ==
    /\ pc' = [pc EXCEPT ![w] = IF p = "poll" /\ Counting(w) THEN "head" ELSE p]
    /\ poll_count' = [poll_count EXCEPT ![w] =
                         IF p = "poll" /\ pc[w] # "start" /\ kind = "audio"
                         THEN Incremented(@) ELSE @]
    /\ cycle' = [cycle EXCEPT ![w] =
                    IF p = "poll" /\ Counting(w)
                    THEN [k |-> (@.k + 1) % heartbeat_interval, beat |-> FALSE]
                    ELSE @]

\* register_worker: upsert of the worker's row with status online.
RegisterWorker(w) ==
    /\ pc[w] = "start"
    /\ registry' = [registry EXCEPT ![worker_id[w]].present = TRUE,
                                    ![worker_id[w]].status = "online"]
    /\ Enter(w, "poll")
    /\ UNCHANGED <<kind, deployed, closed, worker_id, queue_files, jobs, now, cand, rc, cnt, enqSince, tried, won, runs, errors, sent, sinkFailed, cycleErr, scratch, ret, overtook>>

\* the head of a poll cycle is left: the video worker's poll_count += 1
LeaveHead(w) ==
    /\ pc' = [pc EXCEPT ![w] = "poll"]
    /\ poll_count' = [poll_count EXCEPT ![w] = IF kind = "video" THEN Incremented(@) ELSE @]

\* send_heartbeat at the head of a poll cycle: an update of the worker's row
\* (no row, no effect).  Where poll_count is not followed, a worker can have
\* taken any number of cycles, so the heartbeat can be due in the cycle of any
\* listing.
SendHeartbeat(w) ==
    /\ \/ pc[w] = "poll" /\ ~Counting(w)
       \/ pc[w] = "head" /\ HeartbeatDue(poll_count[w])
    /\ registry' = [registry EXCEPT ![worker_id[w]].status =
                                      IF registry[worker_id[w]].present THEN "online" ELSE @]
    /\ LeaveHead(w)
    /\ cycle' = [cycle EXCEPT ![w] = IF Counting(w) THEN [@ EXCEPT !.beat = TRUE] ELSE @]
    /\ UNCHANGED <<kind, deployed, closed, worker_id, queue_files, jobs, now, cand, rc, cnt, enqSince, tried, won, runs, errors, sent, sinkFailed, cycleErr, scratch, ret, overtook>>

\* the heartbeat test at the head of a poll cycle is false
NoHeartbeat(w) ==
    /\ pc[w] = "head"
    /\ ~HeartbeatDue(poll_count[w])
    /\ LeaveHead(w)
    /\ UNCHANGED <<kind, deployed, closed, worker_id, queue_files, cycle, jobs, registry, now, cand, rc, cnt, enqSince, tried, won, runs, errors, sent, sinkFailed, cycleErr, scratch, ret, overtook>>

\* j comes no later than i in ORDER BY priority DESC, created_at ASC
OrderedBefore(j, i) ==
    \/ jobs[j].priority > jobs[i].priority
    \/ /\ jobs[j].priority = jobs[i].priority
       /\ jobs[j].created_at <= jobs[i].created_at

\* faulty variant of ListClaimable: the audio listing loses its order clauses
ListClaimable_Unordered(k) == Pending

\* The rows the listing query with .limit(1) can return.  The audio worker
\* orders by priority desc, created_at asc; the video worker's query has no
\* order clause, so the store may return any pending row.
ListClaimable(k) ==
    IF k = "audio"
    THEN {j \in Pending : \A i \in Pending : OrderedBefore(j, i)}
    ELSE Pending

\* get_pending_job, the listing: a candidate was returned.
ListJob(w) ==
    /\ pc[w] = "poll"
    /\ \E j \in ListClaimable(kind) :
          /\ cand' = [cand EXCEPT ![w] = j]
          /\ pc' = [pc EXCEPT ![w] = "claim"]
    /\ enqSince' = [enqSince EXCEPT ![w] = FALSE]
    /\ UNCHANGED <<kind, deployed, closed, worker_id, queue_files, poll_count, cycle, jobs, registry, now, rc, cnt, tried, won, runs, errors, sent, sinkFailed, cycleErr, scratch, ret, overtook>>

\* get_pending_job, the listing returned no row: run() takes the else branch
\* (audio) or falls through (video) to asyncio.sleep(poll_interval).
ListEmpty(w) ==
    /\ pc[w] = "poll"
    /\ ListClaimable(kind) = {}
    /\ pc' = [pc EXCEPT ![w] = "sleep"]
    /\ UNCHANGED <<kind, deployed, closed, worker_id, queue_files, poll_count, cycle, jobs, registry, now, cand, rc, cnt, enqSince, tried, won, runs, errors, sent, sinkFailed, cycleErr, scratch, ret, overtook>>

\* asyncio.sleep(poll_interval) returns: the next poll cycle begins.
Sleep(w) ==
    /\ pc[w] = "sleep"
    /\ Enter(w, "poll")
    /\ cycleErr' = [cycleErr EXCEPT ![w] = "none"]
    /\ UNCHANGED <<kind, deployed, closed, worker_id, queue_files, jobs, registry, now, cand, rc, cnt, enqSince, tried, won, runs, errors, sent, sinkFailed, scratch, ret, overtook>>

\* observer: a claim round of a job runs from pending until the claimed job is
\* reported completed or failed.
InClaimRound(j) == jobs[j].status \in {"pending", "processing"}

\* faulty variant of ClaimMatches: the claim update filters on job_id alone
ClaimMatches_NoStatusFilter(j) == jobs[j].status # "absent"

\* faulty variant of ClaimMatches: the claim update only refuses finished jobs
ClaimMatches_NotTerminal(j) == jobs[j].status \in {"pending", "processing"}

\* the claim update's filter .eq('job_id', job_id).eq('status', 'pending')
ClaimMatches(j) == jobs[j].status = "pending"

\* faulty variant of ClaimedRow: the claim update also writes retry_count 0
ClaimedRow_ResetsRetryCount(row, w, t) ==
    [row EXCEPT !.status = "processing", !.processing_started_at = t,
                !.worker_id = w, !.retry_count = 0]

\* the columns the claim update writes
ClaimedRow(row, w, t) ==
    [row EXCEPT !.status = "processing", !.processing_started_at = t,
                !.worker_id = w]

\* get_pending_job, the claim: one conditional update.
TryClaim(w) ==
    /\ pc[w] = "claim"
    /\ LET j == cand[w] IN
       /\ tried' = [tried EXCEPT ![j] = IF InClaimRound(j) THEN @ \cup {w} ELSE @]
       /\ IF ClaimMatches(j)
          THEN /\ \E t \in ClockRead :
                    /\ now' = t
                    /\ jobs' = [jobs EXCEPT ![j] = ClaimedRow(jobs[j], worker_id[w], t)]
               /\ pc' = [pc EXCEPT ![w] = "exec"]
               /\ cand' = cand
               /\ won' = [won EXCEPT ![j] = @ \cup {w}]
               /\ runs' = [runs EXCEPT ![j] = @ + 1]
               /\ overtook' = [overtook EXCEPT ![w] =
                                  \E i \in Pending : jobs[i].priority > jobs[j].priority]
          ELSE /\ pc' = [pc EXCEPT ![w] = "lost"]
               /\ UNCHANGED <<jobs, now, cand, won, runs, overtook>>
    /\ enqSince' = [enqSince EXCEPT ![w] = FALSE]
    /\ UNCHANGED <<kind, deployed, closed, worker_id, queue_files, poll_count, cycle, registry, rc, cnt, errors, sent, sinkFailed, cycleErr, scratch, ret>>

\* get_pending_job returned None after a claim that matched no row ("another
\* worker grabbed it"): run() goes to asyncio.sleep(poll_interval) as it does
\* after an empty listing.
SleepAfterLostClaim(w) ==
    /\ pc[w] = "lost"
    /\ pc' = [pc EXCEPT ![w] = "sleep"]
    /\ cand' = [cand EXCEPT ![w] = NoJob]
    /\ UNCHANGED <<kind, deployed, closed, worker_id, queue_files, poll_count, cycle, jobs, registry, now, rc, cnt, enqSince, tried, won, runs, errors, sent, sinkFailed, cycleErr, scratch, ret, overtook>>

\* run(): after process_job the audio worker starts the next cycle at once
\* (the sleep is in the else branch), the video worker sleeps the poll
\* interval after every cycle.
AfterJob(k) == IF k = "audio" THEN "poll" ELSE "sleep"

\* process_job after mark_job_completed returned: the video worker sends its
\* notification now, the audio worker has sent it before the call.
AfterCompleted(k) == IF k = "audio" THEN AfterJob(k) ELSE "notify_success"

\* The scratch files process_job removes before it returns from position p.
\* AudioWorker: os.remove(audio_path) is step 7 of the success path; the except
\* branch removes nothing.  LocalVideoWorker: the finally clause removes
\* audio_path, image_path and video_path on every path (not the images of a
\* multi-image job, which it holds in image_paths).
Removed(k, p) ==
    IF k = "audio"
    THEN IF p \in {"complete", "read_completed", "write_completed"} THEN {"raw.wav"} ELSE {}
    ELSE {"audio.wav", "image.jpg", "final_video.mp4"}

\* worker w's directory after process_job has returned from position p
Cleaned(w, p) == {f \in scratch[w] : ~(f[1] = cand[w] /\ f[2] \in Removed(kind, p))}

\* w goes on at position p: outside process_job the job's files are cleaned
\* up and the local job is gone, and a new poll cycle starts with no error
\* seen.
Goto(w, p) ==
    /\ Enter(w, p)
    /\ cand' = [cand EXCEPT ![w] = IF p \in {"poll", "sleep"} THEN NoJob ELSE @]
    /\ cycleErr' = [cycleErr EXCEPT ![w] = IF p = "poll" THEN "none" ELSE @]
    /\ scratch' = [scratch EXCEPT ![w] = IF p \in {"poll", "sleep"} THEN Cleaned(w, pc[w]) ELSE @]

\* The positions at which process_job calls send_telegram_notification: the
\* audio worker as soon as the handler has succeeded (before
\* mark_job_completed) and after mark_job_failed; the video worker after
\* mark_job_completed and after mark_job_failed.
NotifyAt(k) ==
    IF k = "audio" THEN {"exec", "notify_failure"}
                   ELSE {"notify_success", "notify_failure"}

NotificationOf(p) == IF p = "notify_failure" THEN "failure" ELSE "success"

\* faulty variant of AfterNotify: an exception of the sink leaves
\* send_telegram_notification and ends run()
AfterNotify_SinkErrorEscapes(k, p, delivered) ==
    IF ~delivered THEN "stopped"
    ELSE IF k = "audio" /\ p = "exec" THEN "complete" ELSE AfterJob(k)

\* Where process_job goes on after the notification:
\* send_telegram_notification catches every Exception of the sink and returns
\* None either way.
AfterNotify(k, p, delivered) ==
    IF k = "audio" /\ p = "exec" THEN "complete" ELSE AfterJob(k)

\* send_telegram_notification, with the sink delivering the message or raising.
Notify(w, delivered) ==
    /\ pc[w] \in NotifyAt(kind)
    /\ delivered \/ Cardinality(sinkFailed) < MaxSinkErrors
    /\ sent' = [sent EXCEPT ![cand[w]][NotificationOf(pc[w])] = @ + 1]
    /\ sinkFailed' = IF delivered THEN sinkFailed
                     ELSE sinkFailed \cup {<<cand[w], NotificationOf(pc[w])>>}
    /\ Goto(w, AfterNotify(kind, pc[w], delivered))
    /\ overtook' = [overtook EXCEPT ![w] = FALSE]
    /\ UNCHANGED <<kind, deployed, closed, worker_id, queue_files, jobs, registry, now, rc, cnt, enqSince, tried, won, runs, errors, ret>>

\* The files the handler can write next into the working directory, given
\* the files of the job that are there.  AudioWorker: generate_audio_f5 saves
\* {job_id}_raw.wav.  LocalVideoWorker: {job_id}_audio.wav, then
\* {job_id}_image.jpg or the images of a multi-image job, then
\* {job_id}_final_video.mp4.
HandlerFiles(k, have) ==
    IF k = "audio" THEN {"raw.wav"}
    ELSE {"audio.wav"}
         \cup (IF "audio.wav" \in have THEN {"image.jpg", "images"} ELSE {})
         \cup (IF have \cap {"image.jpg", "images"} # {} THEN {"final_video.mp4"} ELSE {})

\* The handler of the claimed job writes a file into the working directory.
HandlerWritesFile(w) ==
    /\ pc[w] = "exec"
    /\ \E f \in HandlerFiles(kind, {x[2] : x \in {y \in scratch[w] : y[1] = cand[w]}}) :
          /\ <<cand[w], f>> \notin scratch[w]
          /\ scratch' = [scratch EXCEPT ![w] = @ \cup {<<cand[w], f>>}]
    /\ UNCHANGED <<kind, deployed, closed, worker_id, queue_files, poll_count, cycle, jobs, registry, now, pc, cand, rc, cnt, enqSince, tried, won, runs, errors, sent, sinkFailed, cycleErr, ret, overtook>>

\* The result references the handler can hand to mark_job_completed: the audio
\* handler raises unless the upload returned an id; the video handler passes
\* gdrive_file_id or '' and gofile_link or ''.
HandlerResults(k) == IF k = "audio" THEN {"ref"} ELSE {"ref", ""}

\* the position from which process_job calls mark_job_completed
CompleteAt(k) == IF k = "audio" THEN "complete" ELSE "exec"

\* faulty variant of CompletedRow: the update writes the result and leaves
\* the status as it is
CompletedRow_KeepsStatus(row, r, t) ==
    [row EXCEPT !.completed_at = t, !.result = r]

\* the columns mark_job_completed's update writes: status, completed_at and
\* the result reference (audio_gdrive_id / video_gdrive_id and the link)
CompletedRow(row, r, t) ==
    [row EXCEPT !.status = "completed", !.completed_at = t, !.result = r]

\* process_job succeeded; mark_job_completed's update of the job row
\* (filter: job_id only).
MarkJobCompleted(w) ==
    /\ pc[w] = CompleteAt(kind)
    /\ \E r \in HandlerResults(kind), t \in ClockRead :
          /\ now' = t
          /\ jobs' = [jobs EXCEPT ![cand[w]] = CompletedRow(jobs[cand[w]], r, t)]
    /\ tried' = [tried EXCEPT ![cand[w]] = {}]
    /\ won' = [won EXCEPT ![cand[w]] = {}]
    /\ pc' = [pc EXCEPT ![w] = "read_completed"]
    /\ overtook' = [overtook EXCEPT ![w] = FALSE]
    /\ UNCHANGED <<kind, deployed, closed, worker_id, queue_files, poll_count, cycle, registry, cand, rc, cnt, enqSince, runs, errors, sent, sinkFailed, cycleErr, scratch, ret>>

\* faulty variant of NextRetryCount: the count is taken as if the select had
\* returned no row
NextRetryCount_NoRow(stored) == 1

\* retry_count = job.data[0].get('retry_count', 0) + 1 (the row exists: no
\* operation deletes a job row)
NextRetryCount(stored) == stored + 1

\* process_job raised; mark_job_failed's select of retry_count.
ReadRetryCount(w) ==
    /\ pc[w] = "exec"
    /\ rc' = [rc EXCEPT ![w] = NextRetryCount(jobs[cand[w]].retry_count)]
    /\ pc' = [pc EXCEPT ![w] = "write_failed_job"]
    /\ overtook' = [overtook EXCEPT ![w] = FALSE]
    /\ UNCHANGED <<kind, deployed, closed, worker_id, queue_files, poll_count, cycle, jobs, registry, now, cand, cnt, enqSince, tried, won, runs, errors, sent, sinkFailed, cycleErr, scratch, ret>>

\* faulty variant of FailStatus: > in place of >=
FailStatus_OffByOne(retry_count) == IF retry_count > max_retries THEN "failed" ELSE "pending"

\* faulty variant of FailStatus: a job to be retried keeps its status
FailStatus_LeavesProcessing(retry_count) ==
    IF retry_count >= max_retries THEN "failed" ELSE "processing"

\* status = 'failed' if retry_count >= self.max_retries else 'pending'
FailStatus(retry_count) == IF retry_count >= max_retries THEN "failed" ELSE "pending"

\* faulty variant of FailedRow: the update also resets the priority
FailedRow_ResetsPriority(row, retry_count) ==
    [row EXCEPT !.status = FailStatus(retry_count), !.error_message = "error",
                !.retry_count = retry_count, !.priority = 0]

\* the columns mark_job_failed's update writes
FailedRow(row, retry_count) ==
    [row EXCEPT !.status = FailStatus(retry_count), !.error_message = "error",
                !.retry_count = retry_count]

\* faulty variant of AfterFailUpdate: process_job notifies only when the job
\* is failed for good
AfterFailUpdate_NoNoticeOnRetry(k, status) ==
    IF status = "failed" THEN "read_failed" ELSE AfterJob(k)

\* Where the worker goes on after mark_job_failed's update: to the worker
\* stats if the job is failed for good, else back to process_job, which sends
\* the failure notification.
AfterFailUpdate(k, status) ==
    IF status = "failed" THEN "read_failed" ELSE "notify_failure"

\* mark_job_failed's update of the job row (filter: job_id only).
MarkJobFailed(w) ==
    /\ pc[w] = "write_failed_job"
    /\ LET j == cand[w] IN
       /\ jobs' = [jobs EXCEPT ![j] = FailedRow(jobs[j], rc[w])]
       /\ tried' = [tried EXCEPT ![j] = {}]
       /\ won' = [won EXCEPT ![j] = {}]
    /\ Goto(w, AfterFailUpdate(kind, FailStatus(rc[w])))
    /\ rc' = [rc EXCEPT ![w] = 0]
    /\ UNCHANGED <<kind, deployed, closed, worker_id, queue_files, registry, now, cnt, enqSince, runs, errors, sent, sinkFailed, ret, overtook>>

\* "Update worker stats": the select of jobs_completed / jobs_failed.
ReadCounter(w) ==
    /\ pc[w] \in {"read_completed", "read_failed"}
    /\ IF registry[worker_id[w]].present
       THEN /\ cnt' = [cnt EXCEPT ![w] = IF pc[w] = "read_completed"
                                         THEN registry[worker_id[w]].jobs_completed
                                         ELSE registry[worker_id[w]].jobs_failed]
            /\ pc' = [pc EXCEPT ![w] = IF pc[w] = "read_completed"
                                       THEN "write_completed" ELSE "write_failed"]
            /\ UNCHANGED <<cand, cycleErr, scratch, poll_count, cycle>>
       ELSE /\ Goto(w, IF pc[w] = "read_completed"
                       THEN AfterCompleted(kind) ELSE "notify_failure")
            /\ cnt' = cnt
    /\ UNCHANGED <<kind, deployed, closed, worker_id, queue_files, jobs, registry, now, rc, enqSince, tried, won, runs, errors, sent, sinkFailed, ret, overtook>>

\* faulty variant of Counted: the update writes the count it has read
Counted_NoIncrement(current_count) == current_count

\* current_count + 1 (the counters stop at MaxCount to keep the model finite)
Counted(current_count) ==
    IF current_count < MaxCount THEN current_count + 1 ELSE current_count

\* "Update worker stats": the update with current_count + 1.
WriteCounter(w) ==
    /\ pc[w] \in {"write_completed", "write_failed"}
    /\ registry' = IF pc[w] = "write_completed"
                   THEN [registry EXCEPT ![worker_id[w]].jobs_completed = Counted(cnt[w])]
                   ELSE [registry EXCEPT ![worker_id[w]].jobs_failed = Counted(cnt[w])]
    /\ Goto(w, IF pc[w] = "write_completed"
               THEN AfterCompleted(kind) ELSE "notify_failure")
    /\ cnt' = [cnt EXCEPT ![w] = 0]
    /\ UNCHANGED <<kind, deployed, closed, worker_id, queue_files, jobs, now, rc, enqSince, tried, won, runs, errors, sent, sinkFailed, ret, overtook>>

\* faulty variant of AfterStoreError: an exception of the claim update is
\* taken for a successful claim
AfterStoreError_ClaimProceeds(k, p) ==
    CASE p = "start" -> {"poll"}
      [] p = "poll" -> {"sleep"}
      [] p = "claim" -> {"exec"}
      [] p = "exec" -> IF k = "audio" THEN {"notify_failure"}
                       ELSE {"notify_success", "notify_failure"}
      [] p \in {"complete", "read_completed", "write_completed"} -> {AfterCompleted(k)}
      [] p \in {"write_failed_job", "read_failed", "write_failed"} -> {"notify_failure"}
      [] OTHER -> {}

\* Where the worker goes on when the store call it makes at position p raises.
\* register_worker, get_pending_job, mark_job_completed and mark_job_failed
\* each catch the exception and return: run() enters its loop, get_pending_job
\* returns None (run() sleeps), process_job goes on after the mark_job_* call.
\* At "exec" the call is the first one of the report: mark_job_failed's select
\* or, in the video worker, mark_job_completed's update.
AfterStoreError(k, p) ==
    CASE p = "start" -> {"poll"}
      [] p \in {"poll", "claim"} -> {"sleep"}
      [] p = "exec" -> IF k = "audio" THEN {"notify_failure"}
                       ELSE {"notify_success", "notify_failure"}
      [] p \in {"complete", "read_completed", "write_completed"} -> {AfterCompleted(k)}
      [] p \in {"write_failed_job", "read_failed", "write_failed"} -> {"notify_failure"}
      [] OTHER -> {}

\* A store call of register_worker, get_pending_job, mark_job_completed or
\* mark_job_failed raises.
StoreError(w) ==
    /\ errors < MaxStoreErrors
    /\ errors' = errors + 1
    /\ \E p \in AfterStoreError(kind, pc[w]) :
          /\ Enter(w, p)
          /\ cand' = [cand EXCEPT ![w] = IF p \in {"poll", "sleep"} THEN NoJob ELSE @]
          /\ scratch' = [scratch EXCEPT ![w] = IF p \in {"poll", "sleep"} THEN Cleaned(w, pc[w]) ELSE @]
    /\ overtook' = [overtook EXCEPT ![w] = FALSE]
    /\ cycleErr' = [cycleErr EXCEPT ![w] = CASE pc[w] = "poll" -> "listing"
                                             [] pc[w] = "claim" -> "claim"
                                             [] OTHER -> @]
    /\ rc' = [rc EXCEPT ![w] = 0]
    /\ cnt' = [cnt EXCEPT ![w] = 0]
    /\ enqSince' = [enqSince EXCEPT ![w] = FALSE]
    /\ UNCHANGED <<kind, deployed, closed, worker_id, queue_files, jobs, registry, now, tried, won, runs, sent, sinkFailed, ret>>

\* send_heartbeat's update raises: the exception is caught and printed, and
\* run() goes on to get_pending_job in the same cycle.
HeartbeatError(w) ==
    /\ \/ pc[w] = "poll" /\ ~Counting(w)
       \/ pc[w] = "head" /\ HeartbeatDue(poll_count[w])
    /\ errors < MaxStoreErrors
    /\ errors' = errors + 1
    /\ cycleErr' = [cycleErr EXCEPT ![w] = "heartbeat"]
    /\ LeaveHead(w)
    /\ UNCHANGED <<kind, deployed, closed, worker_id, queue_files, cycle, jobs, registry, now, cand, rc, cnt, enqSince, tried, won, runs, sent, sinkFailed, scratch, ret, overtook>>

\* w is inside process_job
InProcessJob(w) ==
    pc[w] \in {"exec", "complete", "read_completed", "write_completed",
               "write_failed_job", "read_failed", "write_failed",
               "notify_success", "notify_failure"}

\* Whether run() marks the worker's row offline when the process is
\* interrupted (SIGINT) at position p.  register_worker runs before the try
\* statement.  The audio worker's update is in the finally clause; the video
\* worker's is in the except KeyboardInterrupt clause, which is not entered
\* when the interrupt reaches the coroutine as a cancellation.
OfflineOnInterrupt(k, p) ==
    IF p = "start" THEN {FALSE}
    ELSE IF k = "audio" THEN {TRUE} ELSE {TRUE, FALSE}

\* The worker process is interrupted: the exception passes through process_job
\* (except Exception does not catch KeyboardInterrupt or CancelledError) and
\* run() returns.  No store call for the job in hand is made (cand keeps the
\* job the worker had claimed and not yet reported).
Interrupt(w) ==
    /\ pc[w] \notin {"off", "stopped"}
    /\ \E offline \in OfflineOnInterrupt(kind, pc[w]) :
          registry' = IF offline /\ registry[worker_id[w]].present
                      THEN [registry EXCEPT ![worker_id[w]].status = "offline"]
                      ELSE registry
    /\ pc' = [pc EXCEPT ![w] = "stopped"]
    /\ cand' = [cand EXCEPT ![w] = IF pc[w] \in {"exec", "complete", "write_failed_job"}
                                   THEN @ ELSE NoJob]
    /\ rc' = [rc EXCEPT ![w] = 0]
    /\ cnt' = [cnt EXCEPT ![w] = 0]
    /\ enqSince' = [enqSince EXCEPT ![w] = FALSE]
    /\ cycleErr' = [cycleErr EXCEPT ![w] = "none"]
    /\ scratch' = [scratch EXCEPT ![w] = IF kind = "video" /\ InProcessJob(w)
                                         THEN Cleaned(w, pc[w]) ELSE @]
    /\ overtook' = [overtook EXCEPT ![w] = FALSE]
    /\ UNCHANGED <<kind, deployed, closed, worker_id, queue_files, poll_count, cycle, jobs, now, tried, won, runs, errors, sent, sinkFailed, ret>>

\* The worker process ends abruptly (killed, power loss): no statement of the
\* program runs any more, no store call is made, no file is removed.
Crash(w) ==
    /\ pc[w] \notin {"off", "stopped"}
    /\ pc' = [pc EXCEPT ![w] = "stopped"]
    /\ cand' = [cand EXCEPT ![w] = IF pc[w] \in {"exec", "complete", "write_failed_job"}
                                   THEN @ ELSE NoJob]
    /\ rc' = [rc EXCEPT ![w] = 0]
    /\ cnt' = [cnt EXCEPT ![w] = 0]
    /\ enqSince' = [enqSince EXCEPT ![w] = FALSE]
    /\ cycleErr' = [cycleErr EXCEPT ![w] = "none"]
    /\ overtook' = [overtook EXCEPT ![w] = FALSE]
    /\ UNCHANGED <<kind, deployed, closed, worker_id, queue_files, poll_count, cycle, jobs, registry, now, tried, won, runs, errors, sent, sinkFailed, scratch, ret>>

\* mark_job_completed called again, by the worker that completed the job and
\* with the result it stored: the update of the job row, then the read and the
\* write of jobs_completed.  (The counter is capped to keep the model finite.)
MarkJobCompletedAgain(w, j) ==
    /\ pc[w] = "poll"
    /\ jobs[j].status = "completed"
    /\ jobs[j].worker_id = worker_id[w]
    /\ registry[worker_id[w]].jobs_completed <= NumJobs
    /\ \E t \in ClockRead :
          /\ now' = t
          /\ jobs' = [jobs EXCEPT ![j].status = "completed",
                                  ![j].completed_at = t,
                                  ![j].result = jobs[j].result]
    /\ registry' = IF registry[worker_id[w]].present
                   THEN [registry EXCEPT ![worker_id[w]].jobs_completed = @ + 1]
                   ELSE registry
    /\ UNCHANGED <<kind, deployed, closed, worker_id, queue_files, poll_count, cycle, pc, cand, rc, cnt, enqSince, tried, won, runs, errors, sent, sinkFailed, cycleErr, scratch, ret, overtook>>

\* ------------------------------------------------------------------ spec
\* every process has a worker_id of its own
OwnIds == [w \in Workers |-> w]

\* every process was started with the same WORKER_ID
SharedIds == [w \in Workers |-> 1]

\* observer cycle before the loop
NoCycle == [k |-> -1, beat |-> FALSE]

\* the state after construction with the clock at t, but for the worker ids,
\* for poll_count and for the observer ret
StartAt(t) ==
    /\ kind \in Kinds
    /\ deployed \in {1..n : n \in Workers}
    /\ closed = FALSE
    /\ queue_files = {}
    /\ jobs = [j \in JobIds |-> AbsentJob]
    /\ registry = [w \in Workers |-> AbsentWorker]
    /\ now = t
    /\ pc = [w \in Workers |-> IF w \in deployed THEN "start" ELSE "off"]
    /\ cand = [w \in Workers |-> NoJob]
    /\ rc = [w \in Workers |-> 0]
    /\ cnt = [w \in Workers |-> 0]
    /\ enqSince = [w \in Workers |-> FALSE]
    /\ tried = [j \in JobIds |-> {}]
    /\ won = [j \in JobIds |-> {}]
    /\ runs = [j \in JobIds |-> 0]
    /\ errors = 0
    /\ sent = [j \in JobIds |-> NothingSent]
    /\ sinkFailed = {}
    /\ cycleErr = [w \in Workers |-> "none"]
    /\ scratch = [w \in Workers |-> {}]
    /\ overtook = [w \in Workers |-> FALSE]
    /\ cycle = [w \in Workers |-> NoCycle]

\* the state after construction, with the clock at its first instant
Start == StartAt(0)

\* every worker has its own id, poll_count is not followed
Plain ==
    /\ worker_id = OwnIds
    /\ poll_count = [w \in Workers |-> NotCounted]

Init == Start /\ Plain /\ ret = RetOff

Next ==
    \/ \E p \in Priorities : Enqueue(p)
    \/ \E j \in JobIds : CancelJob(j)
    \/ \E w \in Workers : RegisterWorker(w)
    \/ \E w \in Workers : SendHeartbeat(w)
    \/ \E w \in Workers : ListJob(w)
    \/ \E w \in Workers : ListEmpty(w)
    \/ \E w \in Workers : Sleep(w)
    \/ \E w \in Workers : TryClaim(w)
    \/ \E w \in Workers : SleepAfterLostClaim(w)
    \/ \E w \in Workers : Notify(w, TRUE)
    \/ \E w \in Workers : MarkJobCompleted(w)
    \/ \E w \in Workers : ReadRetryCount(w)
    \/ \E w \in Workers : MarkJobFailed(w)
    \/ \E w \in Workers : ReadCounter(w)
    \/ \E w \in Workers : WriteCounter(w)

\* The queue with a store and a notification sink that answer every call.
Spec == Init /\ [][Next]_vars

NextStoreErrors ==
    \/ Next
    \/ \E w \in Workers : StoreError(w)

\* the deployment is started at the last instant the clock can show: every
\* stamp written is MaxTime, so the rows differ in status, worker_id,
\* retry_count and priority only
InitStoreErrors == StartAt(MaxTime) /\ Plain /\ ret = RetOff

\* The queue with a store that may raise on up to MaxStoreErrors calls of
\* register_worker, get_pending_job, mark_job_completed and mark_job_failed.
\* What is checked here is about status, holder and retry_count, none of it
\* about the order of the stamps.
SpecStoreErrors == InitStoreErrors /\ [][NextStoreErrors]_vars

NextRepeat ==
    \/ Next
    \/ \E w \in Workers, j \in JobIds : MarkJobCompletedAgain(w, j)

\* The queue with a client that repeats mark_job_completed on completed jobs.
SpecRepeat == Init /\ [][NextRepeat]_vars

\* a deployment of one worker process
InitOneWorker == Init /\ Cardinality(deployed) = 1

NextPollErrors ==
    \/ Next
    \/ \E w \in Workers : StoreError(w)
    \/ \E w \in Workers : HeartbeatError(w)

\* One worker, with a store that may raise on up to MaxStoreErrors calls, the
\* heartbeat's included.
SpecPollErrors == InitOneWorker /\ [][NextPollErrors]_vars

NextSinkErrors ==
    \/ Next
    \/ \E w \in Workers : Notify(w, FALSE)

\* One worker, with a notification sink that may raise on up to MaxSinkErrors
\* calls.
SpecSinkErrors == InitOneWorker /\ [][NextSinkErrors]_vars

NextShutdown ==
    \/ Next
    \/ \E w \in Workers : Interrupt(w)

\* One worker, whose process may be interrupted.
SpecShutdown == InitOneWorker /\ [][NextShutdown]_vars

NextScratch ==
    \/ Next
    \/ \E w \in Workers : HandlerWritesFile(w)

\* One worker, with the files of its working directory observed.
SpecScratch == InitOneWorker /\ [][NextScratch]_vars

\* a deployment of one worker process, with the producers' return values
\* observed
InitProducers == Start /\ Plain /\ Cardinality(deployed) = 1 /\ ret = RetNone

NextProducers ==
    \/ Next
    \/ \E p \in Priorities : EnqueueRejected(p)
    \/ \E j \in JobIds : CancelRejected(j)
    \/ \E step \in {"audio", "image"} : UploadFails(step)

\* One worker and producers whose store calls may raise on up to
\* MaxStoreErrors calls.
SpecProducers == InitProducers /\ [][NextProducers]_vars

NextCrash ==
    \/ Next
    \/ \E w \in Workers : Crash(w)

\* The queue with worker processes that may end abruptly.
SpecCrash == Init /\ [][NextCrash]_vars

\* a step of worker w's program (send_heartbeat changes nothing the model
\* records, so it is no step)
WorkerStep(w) ==
    \/ RegisterWorker(w)
    \/ ListJob(w)
    \/ ListEmpty(w)
    \/ Sleep(w)
    \/ TryClaim(w)
    \/ SleepAfterLostClaim(w)
    \/ Notify(w, TRUE)
    \/ MarkJobCompleted(w)
    \/ ReadRetryCount(w)
    \/ MarkJobFailed(w)
    \/ ReadCounter(w)
    \/ WriteCounter(w)

\* Every worker process keeps running: each store call, each handler and
\* each sleep returns, and run() takes its next step.
Fairness == \A w \in Workers : WF_vars(WorkerStep(w))

NextStream ==
    \/ Next
    \/ \E p \in Priorities, j \in JobIds : Reinsert(p, j)
    \/ StopProducing

\* One worker and a store that answers every call, under fair scheduling of
\* the worker process, with producers that may go on inserting jobs for ever
\* or stop at any time.
SpecLive == InitOneWorker /\ [][NextStream]_vars /\ Fairness

\* one worker process whose poll_count is followed from poll_count = 0
InitHeartbeat ==
    /\ Start /\ Cardinality(deployed) = 1 /\ ret = RetOff
    /\ worker_id = OwnIds
    /\ poll_count = [w \in Workers |-> 0]

NextHeartbeat ==
    \/ Next
    \/ \E w \in Workers : NoHeartbeat(w)

\* One worker and a store that answers every call, with the poll cycles
\* counted.
SpecHeartbeat == InitHeartbeat /\ [][NextHeartbeat]_vars

\* two worker processes, each with its own worker_id or both with the same
InitSharedId ==
    /\ Start /\ deployed = Workers /\ ret = RetOff
    /\ worker_id \in {OwnIds, SharedIds}
    /\ poll_count = [w \in Workers |-> NotCounted]

\* Two worker processes that may have been started with one WORKER_ID.
SpecSharedId == InitSharedId /\ [][Next]_vars

\* ------------------------------------------------------------ vocabulary
Terminal == {"completed", "failed"}

\* w is between its successful claim of a job and its own report for it
\* (mark_job_completed's or mark_job_failed's update of the job row).
Busy(w) == pc[w] \in {"exec", "complete", "write_failed_job"}

Holders(j) == {w \in Workers : Busy(w) /\ cand[w] = j}

\* steps of the worker program, as changes of its position
ListStep(w) == pc[w] = "poll" /\ pc'[w] = "claim"
ClaimStep(w) == pc[w] = "claim" /\ pc'[w] \in {"exec", "lost"}
ClaimedStep(w) == pc[w] = "claim" /\ pc'[w] = "exec"
FailStep(w) ==
    /\ pc[w] = "write_failed_job"
    /\ pc'[w] \in {"notify_failure", "read_failed"}
    /\ errors' = errors

TypeOK ==
    /\ kind \in Kinds
    /\ now \in Times
    /\ \A j \in JobIds : jobs[j].retry_count \in 0..max_retries
    /\ \A w \in Workers : cand[w] \in JobIds \cup {NoJob}

\* ---------------------------------------------------------------- claims

\* C1: when N >= 2 workers run their claim update on the same job in one claim
\* round (the job was pending when the first update ran), exactly one update
\* matches, every other worker is told "not claimed" and holds nothing, and the
\* job's worker_id is the winner's id.
C1_ExactlyOneClaim ==
    \A j \in JobIds :
        /\ Cardinality(won[j]) <= 1
        /\ tried[j] # {} =>
              /\ Cardinality(won[j]) = 1
              /\ won[j] \subseteq tried[j]
              /\ jobs[j].worker_id \in won[j]
              /\ \A w \in tried[j] \ won[j] : ~(Busy(w) /\ cand[w] = j)

C1_Witness ==
    \E j \in JobIds :
        /\ Cardinality(tried[j]) >= 2
        /\ Cardinality(won[j]) = 1
        /\ \E w \in tried[j] \ won[j] : pc[w] = "lost" /\ cand[w] = j

\* C2: in every reachable state each job is held by at most one worker.
C2_AtMostOneHolder ==
    \A j \in JobIds : Cardinality(Holders(j)) <= 1

C2_Witness ==
    \E j \in JobIds, w1, w2 \in Workers :
        /\ w1 # w2
        /\ jobs[j].retry_count >= 1
        /\ Holders(j) = {w1}
        /\ pc[w2] = "lost" /\ cand[w2] = j

\* C3: once a job's status is completed or failed, no step changes it.
C3_TerminalIsFinal ==
    [][\A j \in JobIds :
          jobs[j].status \in Terminal => jobs'[j].status = jobs[j].status]_vars

C3_Witness ==
    \E j \in JobIds, w \in Workers :
        /\ jobs[j].status \in Terminal
        /\ pc[w] = "lost" /\ cand[w] = j

\* the four transitions of the job state machine
FourTransitions ==
    {<<"pending", "processing">>, <<"processing", "completed">>,
     <<"processing", "pending">>, <<"processing", "failed">>}

StatusChanged(j) == jobs[j].status # "absent" /\ jobs'[j].status # jobs[j].status

\* C4 as stated: every change of the status of an existing job is one of the
\* four transitions.
C4_OnlyFourTransitions ==
    [][\A j \in JobIds :
          StatusChanged(j) => <<jobs[j].status, jobs'[j].status>> \in FourTransitions]_vars

\* C4 as amended: every change of the status of an existing job is one of the
\* four transitions, or pending -> failed made by cancel_job, which writes the
\* error message 'Cancelled by user'; no job goes from pending to completed.
C4_TransitionsWithCancel ==
    [][\A j \in JobIds :
          StatusChanged(j) =>
             \/ <<jobs[j].status, jobs'[j].status>> \in FourTransitions
             \/ /\ <<jobs[j].status, jobs'[j].status>> = <<"pending", "failed">>
                /\ jobs'[j].error_message = "Cancelled by user"
                /\ jobs'[j].retry_count = jobs[j].retry_count
                /\ kind = "audio"]_vars

C4_Witness ==
    \E j \in JobIds :
        /\ jobs[j].status = "failed"
        /\ jobs[j].error_message = "Cancelled by user"
        /\ jobs[j].retry_count \in 1..(max_retries - 1)

\* C5: every executed update of mark_job_failed stores the previous
\* retry_count plus 1, and leaves the job failed if the new count is at least
\* max_retries and pending otherwise.
C5_MonotonicRetry ==
    [][\A w \in Workers :
          FailStep(w) =>
             LET j == cand[w] IN
             /\ jobs'[j].retry_count = jobs[j].retry_count + 1
             /\ jobs'[j].status = IF jobs'[j].retry_count >= max_retries
                                  THEN "failed" ELSE "pending"]_vars

C5_Witness ==
    \E j1, j2 \in JobIds :
        /\ jobs[j1].status = "failed" /\ jobs[j1].retry_count = max_retries
        /\ jobs[j1].error_message = "error"
        /\ jobs[j2].status = "pending" /\ jobs[j2].retry_count = 1

\* C6: a job's retry_count never decreases; it changes only in the update of
\* mark_job_failed on that job; a newly inserted job has retry_count 0.
C6_RetryCountOnlyByFail ==
    [][\A j \in JobIds :
          /\ jobs'[j].retry_count >= jobs[j].retry_count
          /\ jobs'[j].retry_count # jobs[j].retry_count =>
                \E w \in Workers : FailStep(w) /\ cand[w] = j
          /\ (jobs[j].status = "absent" /\ jobs'[j].status # "absent") =>
                jobs'[j].retry_count = 0]_vars

C6_Witness ==
    \E j \in JobIds :
        /\ jobs[j].status = "completed"
        /\ jobs[j].retry_count = 2

\* C7 as stated: a second mark_job_completed on a completed job, with the same
\* result, leaves the job rows and the worker rows as they were.
C7_CompleteIdempotent ==
    [][\A w \in Workers, j \in JobIds :
          MarkJobCompletedAgain(w, j) => jobs' = jobs /\ registry' = registry]_vars

\* j is first in the order priority descending, created_at ascending
TopOfQueue(j) ==
    /\ j \in Pending
    /\ ~ \E i \in Pending : jobs[i].priority > jobs[j].priority
    /\ ~ \E i \in Pending : /\ jobs[i].priority = jobs[j].priority
                            /\ jobs[i].created_at < jobs[j].created_at

\* C8 as stated: the candidate a worker lists is a pending job of the highest
\* priority and, within that priority, of the earliest created_at.
C8_CandidateIsTop ==
    [][\A w \in Workers : ListStep(w) => TopOfQueue(cand'[w])]_vars

\* C9: with a single worker and no insert between its listing and its claim,
\* a successful claim takes a job such that no other pending job has a
\* strictly higher priority.
C9_SingleWorkerPriority ==
    [][\A w \in Workers :
          (Cardinality(deployed) = 1 /\ ClaimedStep(w) /\ ~enqSince[w]) =>
             \A i \in Pending : jobs[i].priority <= jobs[cand[w]].priority]_vars

C9_Witness ==
    \E a, b \in JobIds, w \in Workers :
        /\ deployed = {w}
        /\ jobs[a].priority < jobs[b].priority
        /\ jobs[a].created_at < jobs[b].created_at
        /\ jobs[a].status = "pending" /\ jobs[a].retry_count = 0
        /\ jobs[b].status = "processing" /\ Holders(b) = {w}

\* C10: the k-th failure of a job's handler leaves the job pending with
\* retry_count k for k < max_retries and failed with retry_count max_retries
\* for k = max_retries; the handler runs at most max_retries times per job.
C10_RetryLadder ==
    /\ [](\A j \in JobIds : runs[j] <= max_retries)
    /\ [][\A w \in Workers :
             FailStep(w) =>
                LET j == cand[w] IN
                /\ jobs'[j].retry_count = runs[j]
                /\ runs[j] < max_retries => jobs'[j].status = "pending"
                /\ runs[j] = max_retries => jobs'[j].status = "failed"]_vars

C10_Witness ==
    \E j \in JobIds :
        /\ runs[j] = max_retries
        /\ jobs[j].status = "failed"
        /\ jobs[j].retry_count = max_retries
        /\ jobs[j].error_message = "error"

\* the step in which w calls send_telegram_notification
NotifyStep(w) ==
    /\ pc[w] \in NotifyAt(kind)
    /\ pc'[w] # pc[w]
    /\ sent'[cand[w]] # sent[cand[w]]

\* the columns of a job row
Columns == DOMAIN AbsentJob

\* C11: a claim update on a pending job sets status = processing, worker_id
\* and processing_started_at of that job in one step and changes no other
\* column and no other row; a claim update on a job that is no longer pending
\* reports "not claimed" and leaves the job table unchanged.
C11_ClaimFrame ==
    [][\A w \in Workers :
          ClaimStep(w) =>
             LET j == cand[w] IN
             IF jobs[j].status = "pending"
             THEN /\ pc'[w] = "exec"
                  /\ jobs'[j].status = "processing"
                  /\ jobs'[j].worker_id = w
                  /\ jobs'[j].processing_started_at = now'
                  /\ \A c \in Columns \ {"status", "worker_id", "processing_started_at"} :
                        jobs'[j][c] = jobs[j][c]
                  /\ \A i \in JobIds \ {j} : jobs'[i] = jobs[i]
             ELSE /\ pc'[w] = "lost"
                  /\ jobs' = jobs]_vars

C11_Witness ==
    \E j \in JobIds, w1, w2 \in Workers :
        /\ pc[w1] = "exec" /\ cand[w1] = j
        /\ jobs[j].status = "processing" /\ jobs[j].worker_id = w1
        /\ jobs[j].processing_started_at = now
        /\ jobs[j].retry_count >= 1 /\ jobs[j].error_message = "error"
        /\ jobs[j].created_at < now
        /\ pc[w2] = "lost" /\ cand[w2] = j

\* C12: an update of mark_job_failed that returns the job to pending changes
\* only status, retry_count and error_message of that job: payload, priority,
\* created_at and every other column keep their values, and so does every
\* other row.
C12_FailFrame ==
    [][\A w \in Workers :
          (FailStep(w) /\ jobs'[cand[w]].status = "pending") =>
             LET j == cand[w] IN
             /\ \A c \in Columns \ {"status", "retry_count", "error_message"} :
                   jobs'[j][c] = jobs[j][c]
             /\ \A i \in JobIds \ {j} : jobs'[i] = jobs[i]]_vars

C12_Witness ==
    \E j \in JobIds :
        /\ jobs[j].status = "pending"
        /\ jobs[j].retry_count = 2 /\ jobs[j].error_message = "error"
        /\ jobs[j].payload = "script" /\ jobs[j].priority = MaxPriority
        /\ jobs[j].created_at = 0 /\ now > 0

\* C13 as stated: when mark_job_failed returns an audio job to pending, every
\* other pending job of the same priority comes before it in the listing
\* order (created_at ascending).
C13_RetriedAtBackOfTier ==
    [][\A w \in Workers :
          (kind = "audio" /\ FailStep(w) /\ jobs'[cand[w]].status = "pending") =>
             \A i \in JobIds \ {cand[w]} :
                (jobs'[i].status = "pending" /\ jobs'[i].priority = jobs'[cand[w]].priority)
                   => jobs'[i].created_at <= jobs'[cand[w]].created_at]_vars

\* C14: a handler failure becomes a call of mark_job_failed on the claimed job
\* and the worker goes on with its loop: the failure itself changes no row,
\* the update that follows leaves the job pending or failed, no worker process
\* ends, and no job is processing unless a worker is between its claim of the
\* job and its report for it.
C14_HandlerFailureBecomesFail ==
    /\ [](\A j \in JobIds : jobs[j].status = "processing" => Holders(j) # {})
    /\ [](\A w \in deployed : pc[w] \notin {"off", "stopped"})
    /\ [][\A w \in Workers :
             /\ (pc[w] = "exec" /\ pc'[w] = "write_failed_job") => jobs' = jobs
             /\ (pc[w] = "write_failed_job" /\ pc'[w] # pc[w]) =>
                   /\ jobs'[cand[w]].status \in {"pending", "failed"}
                   /\ pc'[w] \in {"notify_failure", "read_failed"}]_vars

C14_Witness ==
    \E j \in JobIds, w \in Workers :
        /\ runs[j] = 1 /\ jobs[j].worker_id = w
        /\ jobs[j].status = "pending" /\ jobs[j].retry_count = 1
        /\ jobs[j].error_message = "error"
        /\ pc[w] = "claim" /\ cand[w] = j

\* C15 as stated: in a poll cycle in which the heartbeat, the listing or the
\* claim update raised, the worker runs no handler.
C15_NoHandlerAfterStoreError ==
    \A w \in Workers :
        cycleErr[w] # "none" => pc[w] \in {"poll", "claim", "lost", "sleep"}

\* C15 as amended: when the listing or the claim update raises, the worker
\* goes to the poll-interval sleep with no job in hand and no row changed, and
\* polls again after it; when the heartbeat raises, the worker goes on with
\* the listing of the same cycle with no row changed; the worker process ends
\* in neither case.
C15_ErrorsInPollCycle ==
    /\ [](\A w \in Workers :
             /\ cycleErr[w] \in {"listing", "claim"} =>
                   pc[w] = "sleep" /\ cand[w] = NoJob
             /\ cycleErr[w] = "heartbeat" =>
                   pc[w] \notin {"off", "start", "stopped"})
    /\ [][\A w \in Workers :
             /\ (cycleErr[w] = "none" /\ cycleErr'[w] # "none") =>
                   /\ jobs' = jobs /\ registry' = registry
                   /\ pc'[w] = IF cycleErr'[w] = "heartbeat" THEN "poll" ELSE "sleep"
             /\ (pc[w] = "sleep" /\ pc'[w] # "sleep") => pc'[w] = "poll"]_vars

C15_Witness ==
    \E w \in Workers, j \in JobIds :
        /\ cycleErr[w] = "claim" /\ pc[w] = "sleep"
        /\ jobs[j].status = "pending" /\ jobs[j].retry_count = 1

\* C16 as stated: a worker whose claim update matched no row starts its next
\* poll cycle without the poll-interval sleep.
C16_NoSleepAfterLostClaim ==
    [][\A w \in Workers : pc[w] = "lost" => pc'[w] # "sleep"]_vars

\* C17 as stated: a worker process that was shut down while it had a claimed
\* job in hand has brought the job to completed, pending or failed, and its
\* registry row is offline.
C17_GracefulShutdown ==
    \A w \in Workers :
        (pc[w] = "stopped" /\ cand[w] # NoJob) =>
           /\ jobs[cand[w]].status \in {"completed", "pending", "failed"}
           /\ registry[w].present => registry[w].status = "offline"

\* C18 as stated: when a worker sends the success notification of a job, the
\* job's status is completed.
C18_CompleteBeforeNotification ==
    [][\A w \in Workers :
          (NotifyStep(w) /\ NotificationOf(pc[w]) = "success") =>
             jobs[cand[w]].status = "completed"]_vars

\* the workers that have recorded a failure of job j and have not yet sent
\* its notification
FailureUnnotified(j) ==
    {w \in Workers : cand[w] = j /\ pc[w] \in {"read_failed", "write_failed", "notify_failure"}}

\* C19: every handler failure is followed by a failure notification for that
\* job, when the job returns to pending and when it becomes failed: the
\* failure notifications sent for a job and the workers still on their way to
\* sending one add up to the failures recorded for the job.
C19_FailureNotified ==
    \A j \in JobIds :
        sent[j].failure + Cardinality(FailureUnnotified(j)) = jobs[j].retry_count

C19_Witness ==
    \E j1, j2 \in JobIds :
        /\ jobs[j1].status = "pending" /\ jobs[j1].retry_count = 1
        /\ sent[j1].failure = 1
        /\ jobs[j2].status = "failed" /\ jobs[j2].retry_count = max_retries
        /\ sent[j2].failure = max_retries

\* C20: a notification changes no job row and no worker row, and the worker
\* goes on at the same position whether the sink delivered the message or
\* raised; a job whose success notification raised is completed (in the audio
\* worker: about to be completed, then completed), never failed or retried
\* for it.
C20_SinkFailureHarmless ==
    /\ [](\A j \in JobIds :
             <<j, "success">> \in sinkFailed =>
                \/ jobs[j].status = "completed"
                \/ /\ jobs[j].status = "processing"
                   /\ \E w \in Workers : pc[w] = "complete" /\ cand[w] = j)
    /\ [][\A w \in Workers :
             NotifyStep(w) =>
                /\ jobs' = jobs /\ registry' = registry
                /\ pc'[w] = IF kind = "video" THEN "sleep"
                            ELSE IF pc[w] = "exec" THEN "complete" ELSE "poll"]_vars

C20_Witness ==
    \E j \in JobIds :
        /\ <<j, "success">> \in sinkFailed
        /\ jobs[j].status = "completed" /\ jobs[j].result = "ref"
        /\ jobs[j].retry_count = 1 /\ sent[j].failure = 1

\* C21 as stated: a worker that is outside process_job has no scratch file of
\* any job in its working directory.
C21_NoScratchLeft ==
    \A w \in Workers : ~InProcessJob(w) => scratch[w] = {}

\* C22 as stated: every pending job has an empty worker_id.
C22_PendingUnassigned ==
    \A j \in JobIds : jobs[j].status = "pending" => jobs[j].worker_id = NoWorker

\* C23 as stated: every completed job has an empty error_message.
C23_CompletedNoError ==
    \A j \in JobIds : jobs[j].status = "completed" => jobs[j].error_message = ""

\* C24: a job's result is populated only if the job is completed: no job that
\* is pending, processing or failed carries a result.
C24_ResultOnlyOnCompleted ==
    \A j \in JobIds : jobs[j].result # "" => jobs[j].status = "completed"

C24_Witness ==
    \E j, i \in JobIds :
        /\ jobs[j].status = "completed" /\ jobs[j].result = "ref"
        /\ jobs[j].retry_count = 1
        /\ jobs[i].status = "pending" /\ jobs[i].retry_count = 1
        /\ jobs[i].result = "" /\ jobs[i].worker_id # NoWorker

\* the rows that have been inserted
Inserted == {j \in JobIds : jobs[j].status # "absent"}

C26_CancelOnlyPending ==
    [][\A j \in JobIds :
          (ret' # ret /\ ret'.op = "cancel" /\ ret'.job = j) =>
             IF ret'.ok
             THEN /\ jobs[j].status = "pending"
                  /\ jobs' = [jobs EXCEPT ![j].status = "failed",
                                          ![j].error_message = "Cancelled by user"]
             ELSE jobs' = jobs]_vars

C26_Witness ==
    \E j, i \in JobIds :
        /\ ret = [op |-> "cancel", job |-> j, priority |-> 0, ok |-> FALSE]
        /\ jobs[j].status = "processing"
        /\ jobs[i].status = "failed" /\ jobs[i].error_message = "Cancelled by user"
        /\ jobs[i].retry_count = 0

\* C27: the job a worker had claimed and not reported when its process ended
\* stays processing and assigned to that worker: no step changes its row.
C27_CrashedJobStaysProcessing ==
    /\ [](\A w \in Workers :
             (pc[w] = "stopped" /\ cand[w] # NoJob) =>
                /\ jobs[cand[w]].status = "processing"
                /\ jobs[cand[w]].worker_id = w)
    /\ [][\A w \in Workers :
             (pc[w] = "stopped" /\ cand[w] # NoJob) =>
                jobs'[cand[w]] = jobs[cand[w]]]_vars

C27_Witness ==
    \E j, i \in JobIds, w1, w2 \in Workers :
        /\ pc[w1] = "stopped" /\ cand[w1] = j
        /\ jobs[j].status = "processing" /\ jobs[j].retry_count = 1
        /\ pc[w2] = "lost" /\ cand[w2] = j
        /\ jobs[i].status = "completed" /\ jobs[i].worker_id = w2

\* C28: priority is no hard guarantee with two workers: a claim can match
\* while a job of strictly higher priority is pending (the witness), and it
\* does so only when that job became pending after the worker's listing: it
\* was inserted since, or another worker's mark_job_failed returned it.
C28_OvertakeOnlyByRace ==
    [][\A w \in Workers :
          (ClaimedStep(w) /\ overtook'[w]) =>
             /\ kind = "audio"
             /\ \A i \in Pending :
                   jobs[i].priority > jobs[cand[w]].priority =>
                      \/ enqSince[w]
                      \/ /\ jobs[i].retry_count >= 1
                         /\ jobs[i].worker_id \notin {w, NoWorker}]_vars

C28_Witness ==
    \E w \in Workers, i \in JobIds :
        /\ Cardinality(deployed) = 2
        /\ overtook[w] /\ pc[w] = "exec"
        /\ jobs[cand[w]].status = "processing" /\ jobs[cand[w]].worker_id = w
        /\ jobs[i].status = "pending" /\ jobs[i].retry_count = 1
        /\ jobs[i].priority > jobs[cand[w]].priority
        /\ jobs[i].created_at = jobs[cand[w]].created_at

\* C29 as stated: a job is processing only while the worker it is assigned to
\* is inside process_job with it.
C29_ProcessingOnlyWhileHandled ==
    \A j \in JobIds :
        jobs[j].status = "processing" =>
           \E w \in Workers : InProcessJob(w) /\ cand[w] = j /\ jobs[j].worker_id = w

\* C30 as stated: with a store that answers every call, no crash, handlers
\* that terminate and a fairly scheduled worker, every inserted job eventually
\* is completed or failed.
C30_EveryJobFinishes ==
    \A j \in JobIds :
        (jobs[j].status \in {"pending", "processing"}) ~> (jobs[j].status \in Terminal)

\* C30 as amended: under the same conditions, once the producers have stopped
\* inserting jobs, every job that is pending or processing eventually is
\* completed or failed.
C30_FinishesOnceClosed ==
    \A j \in JobIds :
        (closed /\ jobs[j].status \in {"pending", "processing"}) ~> (jobs[j].status \in Terminal)

C30_Witness ==
    \E j, i \in JobIds, w \in Workers :
        /\ closed
        /\ registry[w].jobs_completed + registry[w].jobs_failed > NumJobs
        /\ jobs[j].status = "completed" /\ jobs[j].retry_count = max_retries - 1
        /\ jobs[i].status = "failed" /\ jobs[i].retry_count = max_retries
        /\ jobs[i].error_message = "error"

\* the jobs cancel_job has cancelled: the update's error_message is written by
\* nothing else
Cancelled == {j \in JobIds : jobs[j].error_message = "Cancelled by user"}

ProcessingUnder(w) ==
    {j \in JobIds : jobs[j].status = "processing" /\ jobs[j].worker_id = w}

\* C32: a worker lists and claims only between jobs: when it lists, it has no
\* job in hand and no job is processing under its id, and at any time at most
\* one job is processing under its id, the one it has in hand.
C32_OneJobAtATime ==
    /\ [](\A w \in Workers :
             /\ ProcessingUnder(w) \subseteq {cand[w]}
             /\ pc[w] \in {"poll", "sleep"} => cand[w] = NoJob /\ ProcessingUnder(w) = {})
    /\ [][\A w \in Workers :
             /\ ListStep(w) => cand[w] = NoJob /\ ProcessingUnder(w) = {}
             /\ ClaimStep(w) => ProcessingUnder(w) = {}
             /\ (InProcessJob(w) /\ pc'[w] # pc[w]) =>
                   \/ InProcessJob(w)' /\ cand'[w] = cand[w]
                   \/ pc'[w] \in {"poll", "sleep"}]_vars

\* the worker has finished one job and is handling the next, which another
\* worker has tried to claim
C32_Witness ==
    \E w \in Workers, j, i \in JobIds :
        /\ pc[w] = "exec" /\ cand[w] = j
        /\ ProcessingUnder(w) = {j}
        /\ jobs[i].status = "completed" /\ jobs[i].worker_id = w
        /\ jobs[i].retry_count = 1
        /\ \E v \in Workers \ {w} : pc[v] = "lost" /\ cand[v] = j

\* C33 as stated: a worker enters the poll-interval sleep only from a listing
\* that returned no job; when process_job returns, the worker polls again
\* without the sleep.
C33_SleepOnlyWhenEmpty ==
    [][\A w \in Workers :
          /\ (pc[w] # "sleep" /\ pc'[w] = "sleep") => (pc[w] = "poll" /\ Pending = {})
          /\ (InProcessJob(w) /\ ~InProcessJob(w)') => pc'[w] = "poll"]_vars

\* C34: where the loop's poll cycles are counted from 0, a heartbeat has been
\* written at the start of the current cycle exactly when the cycle's index is
\* a multiple of heartbeat_interval (the first cycle, then every
\* heartbeat_interval-th), and a heartbeat is written nowhere but at the head
\* of a cycle, where it leaves the worker's row online.
C34_HeartbeatEveryNth ==
    /\ [](\A w \in Workers :
             (Counting(w) /\ pc[w] \notin {"off", "start", "head", "stopped"}) =>
                (cycle[w].beat <=> cycle[w].k = 0))
    /\ [][\A w \in Workers :
             (cycle'[w].beat /\ ~cycle[w].beat) =>
                /\ pc[w] = "head" /\ pc'[w] = "poll"
                /\ registry'[worker_id[w]].status = "online"
                /\ jobs' = jobs]_vars

\* a heartbeat at the start of a cycle that is not the first: the worker has
\* taken six cycles or more for its claims alone
C34_Witness ==
    \E w \in Workers, j, i \in JobIds :
        /\ Counting(w) /\ pc[w] = "poll"
        /\ cycle[w].k = 0 /\ cycle[w].beat
        /\ jobs[j].status = "failed" /\ jobs[j].retry_count = max_retries
        /\ jobs[i].status = "completed" /\ jobs[i].retry_count = max_retries - 1

\* C35 as stated: a worker that polls, claims or handles a job has a row in
\* the worker registry, with status online.
C35_RegisteredBeforePolling ==
    \A w \in Workers :
        pc[w] \notin {"off", "start", "stopped"} =>
           registry[w].present /\ registry[w].status = "online"

\* the jobs completed under worker id n
CompletedUnder(n) ==
    {j \in JobIds : jobs[j].status = "completed" /\ jobs[j].worker_id = n}

\* the processes with worker id n that have completed a job and not yet
\* written the counter
WritingCounter(n) ==
    {w \in Workers : worker_id[w] = n /\ pc[w] \in {"read_completed", "write_completed"}}

\* C36: the increment of jobs_completed is a read and a later write.  Where a
\* worker id is used by one process, jobs_completed is the number of jobs
\* completed under that id, less the one whose count is being written; where
\* two processes share an id the count can fall behind for good (the
\* witness).
C36_CounterExactWhenAlone ==
    \A n \in Workers :
        Cardinality({w \in deployed : worker_id[w] = n}) = 1 =>
           registry[n].jobs_completed + Cardinality(WritingCounter(n))
              = Cardinality(CompletedUnder(n))

\* two processes with one id have completed a job each, both have written the
\* counter and are back in their loops, and the counter is 1
C36_Witness ==
    /\ worker_id = SharedIds
    /\ \A w \in Workers : pc[w] \in {"poll", "sleep"}
    /\ Cardinality(CompletedUnder(1)) = 2
    /\ registry[1].jobs_completed = 1

\* C37 as stated: every completed job carries a result reference.
C37_CompletedHasResult ==
    \A j \in JobIds : jobs[j].status = "completed" => jobs[j].result # ""

\* C38 as stated: every file in the queue folder belongs to a job that was
\* inserted.
C38_NoOrphanFiles ==
    \A f \in queue_files : jobs[f[1]].status # "absent"
====
